---- MODULE Spec2Model ----
(***************************************************************************)
(* Model of the motiva backend: password / Google sign-in, bearer tokens,  *)
(* the per-request authorization gate and the owner-scoped task and        *)
(* schedule endpoints.                                                     *)
(*                                                                         *)
(* Time is counted in ticks (TicksPerSecond ticks to a second) because the *)
(* token library stores and compares whole seconds while the code adds     *)
(* timedeltas to datetime.utcnow().                                        *)
(*                                                                         *)
(* Optional (nullable) values are sequences: <<>> is None, <<x>> is x.     *)
(***************************************************************************)
EXTENDS Integers, Sequences, FiniteSets, TLC

----------------------------------------------------------------------------
(* Bounds of the model *)

\* requests in flight at the same time
NumProcs == 2
\* tasks created in one behaviour
MaxTasks == 1
\* schedules created in one behaviour
MaxSchedules == 1
\* whole minutes the clock may advance
MaxMinutes == 1
\* ticks the clock may advance inside one minute
MaxSubTicks == 3
\* rows the users table may hold
MaxUsers == 3
\* resolution of the clock: ticks per second
TicksPerSecond == 2
SecondsPerMinute == 60
\* timedelta(minutes=15), the default of create_access_token
DefaultExpireMinutes == 15

TicksPerMinute == SecondsPerMinute * TicksPerSecond
MinutesPerHour == 60
HoursPerDay == 24

----------------------------------------------------------------------------
(* Values *)

NoneVal == <<>>
Some(x) == <<x>>
IsNone(o) == o = <<>>

Emails == {"alice@example.com", "bob@example.com"}
Passwords == {"secret123", "hunter2"}
Salts == {"s1"}
FullNames == {Some("Alice")}
GoogleNames == {Some("Alice G")}
Subjects == {"g-1", "g-2"}
Pictures == {Some("pic")}

\* values ACCESS_TOKEN_EXPIRE_MINUTES takes (config.py casts any integer)
ExpireMinutesChoices == {0, 1}

Procs == 1..NumProcs

----------------------------------------------------------------------------
(* Password hasher *)

\* pwd_context.hash: salted, so two hashes of one password differ
get_password_hash(password, salt) == [salt |-> salt, pw |-> password]

\* pwd_context.verify: False for a missing hash (passlib's convenience rule)
verify_password(plain_password, hashed_password) ==
    /\ ~IsNone(hashed_password)
    /\ hashed_password[1].pw = plain_password

----------------------------------------------------------------------------
(* Token service *)

SECRET_KEY == "server-key"
OtherKey == "attacker-key"

timedelta_minutes(m) == m * TicksPerMinute

\* timegm(dt.utctimetuple()): a datetime becomes whole seconds
NumericDate(t) == t \div TicksPerSecond

\* HMAC over the claims: the signature is bound to claims and key
Sign(claims, key) == [claims |-> claims, key |-> key]

jwt_encode(claims, key) ==
    [wf |-> TRUE, claims |-> claims, sig |-> Sign(claims, key)]

\* expires_delta or timedelta(minutes=15): timedelta(0) is falsy
create_access_token(data, expires_delta, t) ==
    LET delta == IF IsNone(expires_delta) \/ expires_delta = Some(0)
                 THEN timedelta_minutes(DefaultExpireMinutes)
                 ELSE expires_delta[1]
        expire == t + delta
    IN jwt_encode([sub |-> data.sub, exp |-> NumericDate(expire)], SECRET_KEY)

\* jwt.decode: JWTError on bad structure, bad signature or exp < now
jwt_decode_ok(token, key, t) ==
    /\ token.wf
    /\ token.sig = Sign(token.claims, key)
    /\ ~(token.claims.exp < NumericDate(t))

\* verify_token: the email, or NoneVal for HTTPException(401, "Token tidak valid")
verify_token(token, t) ==
    IF ~jwt_decode_ok(token, SECRET_KEY, t) THEN NoneVal
    ELSE IF IsNone(token.claims.sub) THEN NoneVal
    ELSE token.claims.sub

----------------------------------------------------------------------------
(* Responses *)

Resp(status, detail, www, token, user) ==
    [status |-> status, detail |-> detail, www |-> www,
     token |-> token, user |-> user]

HTTPException(status, detail) == Resp(status, detail, "none", NoneVal, NoneVal)
HTTPException401(detail) == Resp(401, detail, "Bearer", NoneVal, NoneVal)
ServerError == Resp(500, "Internal Server Error", "none", NoneVal, NoneVal)

----------------------------------------------------------------------------
VARIABLES
    now,       \* datetime.utcnow(), in ticks
    settings,  \* config.Settings
    users,     \* the users table, in insertion order
    pc,        \* where each request in flight stands
    local,     \* the locals of each request in flight
    last,      \* the request that finished last and its response
    held,      \* the bearer token the client keeps, if any
    tasks,     \* the tasks table: the set of its rows
    schedules, \* the schedules table: the set of its rows
    seq        \* the autoincrement counters of the two tables

vars == <<now, settings, users, pc, local, last, held, tasks, schedules, seq>>
authVars == <<users, pc, local, held>>
resVars == <<tasks, schedules, seq>>

----------------------------------------------------------------------------
(* Credential store *)

User(id, email, full_name, hashed_password, google_id, avatar_url, is_active) ==
    [id |-> id, email |-> email, full_name |-> full_name,
     hashed_password |-> hashed_password, google_id |-> google_id,
     avatar_url |-> avatar_url, is_active |-> is_active]

\* db.query(User).filter(User.email == email).first()
UsersByEmail(email) == {i \in 1..Len(users) : users[i].email = email}
first_by_email(email) ==
    IF UsersByEmail(email) = {} THEN NoneVal
    ELSE Some(users[CHOOSE i \in UsersByEmail(email) :
                      \A j \in UsersByEmail(email) : i <= j])

\* a users table without the unique index
NoUniqueIndex(email) == TRUE

\* the unique index on users.email: an INSERT of a stored email fails
UniqueEmailOK(email) == UsersByEmail(email) = {}

----------------------------------------------------------------------------
Idle == [op |-> "none"]

NoResp == HTTPException(0, "")

Init ==
    /\ now = 0
    /\ settings \in [ACCESS_TOKEN_EXPIRE_MINUTES : ExpireMinutesChoices]
    /\ users = <<>>
    /\ pc = [p \in Procs |-> "idle"]
    /\ local = [p \in Procs |-> Idle]
    /\ last = [op |-> "none", email |-> NoneVal, note |-> "", resp |-> NoResp]
    /\ held = NoneVal
    /\ tasks = {}
    /\ schedules = {}
    /\ seq = [task |-> 0, schedule |-> 0]

\* the response leaves the server: the request's locals are gone
\* (note names the branch the handler took; the client sees resp only)
Finish(p, op, email, note, resp) ==
    /\ pc' = [pc EXCEPT ![p] = "idle"]
    /\ local' = [local EXCEPT ![p] = Idle]
    /\ last' = [op |-> op, email |-> email, note |-> note, resp |-> resp]

UserOut(user) == Some([id |-> user.id, email |-> user.email])

----------------------------------------------------------------------------
(* POST /auth/register *)

\* register without the lookup: every request goes on to the insert
register_check_nolookup(p, email, password, full_name) ==
    /\ pc[p] = "idle"
    /\ pc' = [pc EXCEPT ![p] = "register_commit"]
    /\ local' = [local EXCEPT ![p] =
                   [op |-> "register", email |-> email,
                    password |-> password, full_name |-> full_name]]
    /\ last' = last
    /\ UNCHANGED <<now, settings, users, held, resVars>>

\* lines 36-41: the lookup and the 400
register_check(p, email, password, full_name) ==
    /\ pc[p] = "idle"
    /\ IF ~IsNone(first_by_email(email))
       THEN Finish(p, "register", Some(email), "duplicate",
                   HTTPException(400, "Email already registered"))
       ELSE /\ pc' = [pc EXCEPT ![p] = "register_commit"]
            /\ local' = [local EXCEPT ![p] =
                           [op |-> "register", email |-> email,
                            password |-> password, full_name |-> full_name]]
            /\ last' = last
    /\ UNCHANGED <<now, settings, users, held, resVars>>

\* lines 44-54: hash, add, commit, refresh
register_commit(p, salt) ==
    LET req == local[p]
        db_user == User(Len(users) + 1, req.email, req.full_name,
                        Some(get_password_hash(req.password, salt)),
                        NoneVal, NoneVal, TRUE)
    IN /\ pc[p] = "register_commit"
       /\ IF UniqueEmailOK(req.email)
          THEN /\ Len(users) < MaxUsers
               /\ users' = Append(users, db_user)
               /\ Finish(p, "register", Some(req.email), "created",
                         Resp(200, "", "none", NoneVal, UserOut(db_user)))
          ELSE /\ users' = users
               /\ Finish(p, "register", Some(req.email), "conflict", ServerError)
       /\ UNCHANGED <<now, settings, held, resVars>>

----------------------------------------------------------------------------
(* POST /auth/login *)

\* timedelta(minutes=settings.ACCESS_TOKEN_EXPIRE_MINUTES)
access_token_expires == Some(timedelta_minutes(settings.ACCESS_TOKEN_EXPIRE_MINUTES))

TokenResponse(access_token, user) ==
    Resp(200, "", "none", Some(access_token), user)

\* login that checks the password only when the account has a hash
login_skips_missing_hash(p, email, password) ==
    LET user == first_by_email(email)
    IN /\ pc[p] = "idle"
       /\ IF \/ IsNone(user)
             \/ /\ ~IsNone(user[1].hashed_password)
                /\ ~verify_password(password, user[1].hashed_password)
          THEN Finish(p, "login", Some(email), "wrong_password",
                      HTTPException401("Incorrect email or password"))
          ELSE Finish(p, "login", Some(email), "ok",
                      TokenResponse(create_access_token([sub |-> Some(user[1].email)],
                                                        access_token_expires, now),
                                    NoneVal))
       /\ UNCHANGED <<now, settings, users, held, resVars>>

login(p, email, password) ==
    LET user == first_by_email(email)
    IN /\ pc[p] = "idle"
       /\ IF IsNone(user) \/ ~verify_password(password, user[1].hashed_password)
          THEN Finish(p, "login", Some(email),
                      IF IsNone(user) THEN "unknown_email"
                      ELSE IF IsNone(user[1].hashed_password) THEN "no_hash"
                      ELSE "wrong_password",
                      HTTPException401("Incorrect email or password"))
          ELSE Finish(p, "login", Some(email), "ok",
                      TokenResponse(create_access_token([sub |-> Some(user[1].email)],
                                                        access_token_expires, now),
                                    NoneVal))
       /\ UNCHANGED <<now, settings, users, held, resVars>>

----------------------------------------------------------------------------
(* GET /auth/google/callback *)

\* what oauth.google.authorize_access_token hands back
CallbackOutcomes ==
    {[kind |-> "error"], [kind |-> "no_userinfo"]}
    \cup {[kind |-> "userinfo", email |-> e, sub |-> s, name |-> n, picture |-> pic] :
              e \in {NoneVal} \cup {Some(x) : x \in Emails},
              s \in Subjects, n \in GoogleNames, pic \in Pictures}

\* the except clause lost: an exception of the handler leaves it as a 500
GoogleUncaught(cause) == ServerError

\* the except clause: every exception becomes a 400
GoogleFailed(cause) ==
    HTTPException(400, "Google authentication failed: " \o cause)

\* the google_id test lost: every found user is linked again
AlwaysFalsy(o) == TRUE

\* not user.google_id: None and the empty string are falsy
Falsy(o) == IsNone(o) \/ o = Some("")

\* lines 113-119
CallbackToken(email) ==
    create_access_token([sub |-> Some(email)], access_token_expires, now)

\* lines 80-91 and the branch of a user whose google_id is set (105-119)
google_callback_lookup(p, out) ==
    /\ pc[p] = "idle"
    /\ UNCHANGED <<now, settings, users, held, resVars>>
    /\ IF out.kind = "error"
       THEN Finish(p, "google_callback", NoneVal, "oauth_error", GoogleFailed("oauth error"))
       ELSE IF out.kind = "no_userinfo"
       THEN Finish(p, "google_callback", NoneVal, "no_userinfo",
                   GoogleFailed("400: Failed to get user info from Google"))
       ELSE IF IsNone(out.email)
       THEN Finish(p, "google_callback", NoneVal, "no_email", GoogleFailed("'email'"))
       ELSE LET user == first_by_email(out.email[1])
            IN IF IsNone(user)
               THEN /\ pc' = [pc EXCEPT ![p] = "callback_insert"]
                    /\ local' = [local EXCEPT ![p] =
                                   [op |-> "google_callback", claims |-> out, uid |-> 0]]
                    /\ last' = last
               ELSE IF Falsy(user[1].google_id)
               THEN /\ pc' = [pc EXCEPT ![p] = "callback_link"]
                    /\ local' = [local EXCEPT ![p] =
                                   [op |-> "google_callback", claims |-> out,
                                    uid |-> user[1].id]]
                    /\ last' = last
               ELSE Finish(p, "google_callback", out.email, "existing",
                           TokenResponse(CallbackToken(user[1].email), UserOut(user[1])))

\* the insert without google_id=user_info['sub']
google_callback_insert_noid(p) ==
    LET info == local[p].claims
        user == User(Len(users) + 1, info.email[1], info.name, NoneVal,
                     NoneVal, info.picture, TRUE)
    IN /\ pc[p] = "callback_insert"
       /\ UNCHANGED <<now, settings, held, resVars>>
       /\ UniqueEmailOK(user.email)
       /\ Len(users) < MaxUsers
       /\ users' = Append(users, user)
       /\ Finish(p, "google_callback", info.email, "created",
                 TokenResponse(CallbackToken(user.email), UserOut(user)))

\* lines 93-104 and 112-119: add, commit, refresh, token
google_callback_insert(p) ==
    LET info == local[p].claims
        user == User(Len(users) + 1, info.email[1], info.name, NoneVal,
                     Some(info.sub), info.picture, TRUE)
    IN /\ pc[p] = "callback_insert"
       /\ UNCHANGED <<now, settings, held, resVars>>
       /\ IF UniqueEmailOK(user.email)
          THEN /\ Len(users) < MaxUsers
               /\ users' = Append(users, user)
               /\ Finish(p, "google_callback", info.email, "created",
                         TokenResponse(CallbackToken(user.email), UserOut(user)))
          ELSE /\ users' = users
               /\ Finish(p, "google_callback", info.email, "conflict",
                         GoogleFailed("IntegrityError"))

\* linking that rebuilds the row from the claims and drops the password hash
google_callback_link_replace(p) ==
    LET info == local[p].claims
        uid == local[p].uid
    IN /\ pc[p] = "callback_link"
       /\ UNCHANGED <<now, settings, held, resVars>>
       /\ users' = [users EXCEPT ![uid] =
                       User(uid, users[uid].email, info.name, NoneVal,
                            Some(info.sub), info.picture, TRUE)]
       /\ Finish(p, "google_callback", info.email, "linked",
                 TokenResponse(CallbackToken(users[uid].email), UserOut(users'[uid])))

\* lines 107-119: set google_id and avatar_url, commit, token
google_callback_link(p) ==
    LET info == local[p].claims
        uid == local[p].uid
    IN /\ pc[p] = "callback_link"
       /\ UNCHANGED <<now, settings, held, resVars>>
       /\ users' = [users EXCEPT ![uid].google_id = Some(info.sub),
                                 ![uid].avatar_url = info.picture]
       /\ Finish(p, "google_callback", info.email, "linked",
                 TokenResponse(CallbackToken(users[uid].email), UserOut(users'[uid])))

----------------------------------------------------------------------------
(* POST /auth/logout *)

\* a logout that removes the rows of the users table
logout_purging(p) ==
    /\ pc[p] = "idle"
    /\ users' = <<>>
    /\ Finish(p, "logout", NoneVal, "ok",
              Resp(200, "Successfully logged out", "none", NoneVal, NoneVal))
    /\ UNCHANGED <<now, settings, held, resVars>>

\* lines 131-133: no dependency, no parameter, a constant answer
logout(p) ==
    /\ pc[p] = "idle"
    /\ Finish(p, "logout", NoneVal, "ok",
              Resp(200, "Successfully logged out", "none", NoneVal, NoneVal))
    /\ UNCHANGED <<now, settings, users, held, resVars>>

----------------------------------------------------------------------------
(* Authorization gate *)

\* the Authorization header of a request
Credentials ==
    {[kind |-> "missing"], [kind |-> "basic"]}
    \cup (IF IsNone(held) THEN {} ELSE {[kind |-> "bearer", token |-> held[1]]})

\* security = HTTPBearer(): what it raises depends on the FastAPI release
\* (403 before the release that made the scheme classes answer 401)
HTTPBearerErrors(cred) ==
    IF cred.kind = "missing"
    THEN {HTTPException(403, "Not authenticated"),
          HTTPException401("Not authenticated")}
    ELSE {HTTPException(403, "Invalid authentication credentials"),
          HTTPException401("Not authenticated")}

\* get_current_user with the email filter lost: .first() of the whole table
get_current_user_unfiltered(token, t) ==
    LET email == verify_token(token, t)
    IN IF IsNone(email) THEN [ok |-> FALSE, resp |-> HTTPException401("Token tidak valid")]
       ELSE IF Len(users) = 0
            THEN [ok |-> FALSE, resp |-> HTTPException401("User tidak ditemukan")]
            ELSE [ok |-> TRUE, user |-> users[1]]

\* get_current_user: the user row, or the 401 it raises
get_current_user(token, t) ==
    LET email == verify_token(token, t)
    IN IF IsNone(email) THEN [ok |-> FALSE, resp |-> HTTPException401("Token tidak valid")]
       ELSE LET user == first_by_email(email[1])
            IN IF IsNone(user)
               THEN [ok |-> FALSE, resp |-> HTTPException401("User tidak ditemukan")]
               ELSE [ok |-> TRUE, user |-> user[1]]

\* GET /auth/me
get_current_user_info(cred, bearer_error) ==
    /\ cred \in Credentials
    /\ IF cred.kind # "bearer"
       THEN /\ bearer_error \in HTTPBearerErrors(cred)
            /\ last' = [op |-> "me", cred |-> cred, at |-> now, resp |-> bearer_error]
       ELSE LET got == get_current_user(cred.token, now)
            IN /\ bearer_error = NoResp
               /\ last' = [op |-> "me", cred |-> cred, at |-> now,
                           resp |-> IF got.ok
                                    THEN Resp(200, "", "none", NoneVal, UserOut(got.user))
                                    ELSE got.resp]
    /\ UNCHANGED <<now, settings, users, pc, local, held, resVars>>

BearerErrorChoices ==
    {NoResp} \cup UNION {HTTPBearerErrors(c) : c \in {[kind |-> "missing"], [kind |-> "basic"]}}

----------------------------------------------------------------------------
(* The token service on its own: tokens are issued, kept, altered by the  *)
(* client, presented and verified while the clock runs                     *)

\* data of a token: login and google_callback pass {"sub": user.email}
TokenData == {[sub |-> NoneVal]} \cup {[sub |-> Some(e)] : e \in Emails}

\* create_access_token called with the configured ttl; the client keeps the token
issue_token(data) ==
    /\ held' = Some(create_access_token(data, access_token_expires, now))
    /\ last' = [op |-> "issue", data |-> data, at |-> now, resp |-> NoResp]
    /\ UNCHANGED <<now, settings, users, pc, local, resVars>>

\* what a client without the key can do to the token it holds
AlteredTokens(token) ==
    {[token EXCEPT !.claims.sub = Some(e)] : e \in Emails}
    \cup {[token EXCEPT !.claims.exp = @ + SecondsPerMinute]}
    \cup {jwt_encode(token.claims, OtherKey)}
    \cup {[token EXCEPT !.wf = FALSE]}

\* the token altered is one the service issued, as the client received it
alter_token(token) ==
    /\ ~IsNone(held)
    /\ held[1].wf /\ held[1].sig = Sign(held[1].claims, SECRET_KEY)
    /\ token \in AlteredTokens(held[1]) \ {held[1]}
    /\ held' = Some(token)
    /\ UNCHANGED <<now, settings, users, pc, local, last, resVars>>

\* verify_token applied to the token the client holds
verify_token_call ==
    /\ ~IsNone(held)
    /\ last' = [op |-> "verify_token", token |-> held[1], at |-> now,
                result |-> verify_token(held[1], now), resp |-> NoResp]
    /\ UNCHANGED <<now, settings, users, pc, local, held, resVars>>

\* a users row removed outside this service (an account deleted in the database)
delete_account(i) ==
    /\ i \in 1..Len(users)
    /\ users' = [j \in 1..(Len(users) - 1) |-> IF j < i THEN users[j] ELSE users[j + 1]]
    /\ UNCHANGED <<now, settings, pc, local, last, held, resVars>>

TickSecond ==
    /\ now % TicksPerMinute < MaxSubTicks
    /\ now' = now + 1
    /\ UNCHANGED <<settings, users, pc, local, last, held, resVars>>

TickMinute ==
    /\ now \div TicksPerMinute < MaxMinutes
    /\ now' = now + TicksPerMinute
    /\ UNCHANGED <<settings, users, pc, local, last, held, resVars>>

\* a store the register and google_callback flows lead to
InitToken ==
    /\ now = 0
    /\ settings \in [ACCESS_TOKEN_EXPIRE_MINUTES : ExpireMinutesChoices]
    /\ users = << User(1, "alice@example.com", Some("Alice"),
                       Some(get_password_hash("secret123", "s1")), NoneVal, NoneVal, TRUE),
                  User(2, "bob@example.com", Some("Alice G"), NoneVal,
                       Some("g-1"), Some("pic"), TRUE) >>
    /\ pc = [p \in Procs |-> "idle"]
    /\ local = [p \in Procs |-> Idle]
    /\ last = [op |-> "none", email |-> NoneVal, note |-> "", resp |-> NoResp]
    /\ held = NoneVal
    /\ tasks = {}
    /\ schedules = {}
    /\ seq = [task |-> 0, schedule |-> 0]

NextToken ==
    \/ \E data \in TokenData : issue_token(data)
    \/ \E t \in (IF IsNone(held) THEN {} ELSE AlteredTokens(held[1])) : alter_token(t)
    \/ verify_token_call
    \/ \E cred \in Credentials, err \in BearerErrorChoices : get_current_user_info(cred, err)
    \/ \E i \in 1..MaxUsers : delete_account(i)
    \/ TickSecond
    \/ TickMinute

SpecToken == InitToken /\ [][NextToken]_vars

----------------------------------------------------------------------------
(* One client from registration to logout: it registers, logs in, keeps    *)
(* the token of the answer, presents it and logs out while the clock runs  *)

\* the request in flight of the client
Client == 1

\* the client stores the access_token of the login answer it just got
keep_token ==
    /\ last.op = "login"
    /\ ~IsNone(last.resp.token)
    /\ held' = last.resp.token
    /\ UNCHANGED <<now, settings, users, pc, local, last, resVars>>

NextSession ==
    \/ \E email \in Emails, password \in Passwords, full_name \in FullNames :
           register_check(Client, email, password, full_name)
    \/ \E salt \in Salts : register_commit(Client, salt)
    \/ \E email \in Emails, password \in Passwords : login(Client, email, password)
    \/ keep_token
    \/ \E cred \in Credentials, err \in BearerErrorChoices : get_current_user_info(cred, err)
    \/ logout(Client)
    \/ TickSecond
    \/ TickMinute

SpecSession == Init /\ [][NextSession]_vars

----------------------------------------------------------------------------
(* Owned resources: tasks *)

TaskStatus == {"pending", "in_progress", "completed", "cancelled"}
TaskPriority == {"low", "medium", "high"}

Titles == {"write report"}
NewTitles == {"write summary"}

\* the empty payload: no field set
NoFields == <<>>

\* TaskCreate bodies
TaskCreates ==
    {[title |-> Some(t), description |-> NoneVal, priority |-> Some(pr),
      due_date |-> NoneVal, reminder_time |-> NoneVal] :
         t \in Titles, pr \in {"medium"}}

\* TaskUpdate bodies, as model_dump(exclude_unset=True) gives them: only the
\* fields the request set, a field set to null included
TaskPayloads ==
    {a @@ b @@ c :
        a \in {NoFields} \cup {[title |-> Some(t)] : t \in NewTitles},
        b \in {NoFields} \cup {[status |-> Some(st)] : st \in TaskStatus}
                         \cup {[status |-> NoneVal]},
        c \in {NoFields} \cup {[is_completed |-> Some(v)] : v \in BOOLEAN}
                         \cup {[is_completed |-> NoneVal]}}

\* Python truthiness of an optional bool
Truthy(o) == o = Some(TRUE)

\* get_task_by_id with the owner filter lost
get_task_by_id_any(task_id, user_id) ==
    {t \in tasks : t.id = task_id}

\* TaskService.get_task_by_id: the filter is on the id and on the owner
get_task_by_id(task_id, user_id) ==
    {t \in tasks : t.id = task_id /\ t.user_id = user_id}

\* create_task that files every new task under the first user
TaskService_create_task_first(task, user_id) ==
    [id |-> seq.task + 1, title |-> task.title, description |-> task.description,
     priority |-> task.priority, status |-> Some("pending"),
     due_date |-> task.due_date, reminder_time |-> task.reminder_time,
     is_completed |-> Some(FALSE), user_id |-> 1, completed_at |-> NoneVal]

\* TaskService.create_task
TaskService_create_task(task, user_id) ==
    [id |-> seq.task + 1, title |-> task.title, description |-> task.description,
     priority |-> task.priority, status |-> Some("pending"),
     due_date |-> task.due_date, reminder_time |-> task.reminder_time,
     is_completed |-> Some(FALSE), user_id |-> user_id, completed_at |-> NoneVal]

\* update_task without the status / is_completed logic: the body as it was sent
update_data_plain(db_task, payload) == payload

\* update_task with the status logic of lines 85-92 alone: the is_completed
\* logic of lines 95-102 is left out
update_data_status_only(db_task, payload) ==
    IF "status" \in DOMAIN payload
    THEN IF payload.status = Some("completed")
         THEN [is_completed |-> Some(TRUE), completed_at |-> Some(now)] @@ payload
         ELSE IF db_task.status = Some("completed")
         THEN [is_completed |-> Some(FALSE), completed_at |-> NoneVal] @@ payload
         ELSE payload
    ELSE payload

\* TaskService.update_task, lines 82-102: the payload the setattr loop applies
update_data(db_task, payload) ==
    LET d1 == IF "status" \in DOMAIN payload
              THEN IF payload.status = Some("completed")
                   THEN [is_completed |-> Some(TRUE), completed_at |-> Some(now)] @@ payload
                   ELSE IF db_task.status = Some("completed")
                   THEN [is_completed |-> Some(FALSE), completed_at |-> NoneVal] @@ payload
                   ELSE payload
              ELSE payload
        d2 == IF "is_completed" \in DOMAIN d1
              THEN IF Truthy(d1.is_completed)
                   THEN [status |-> Some("completed"), completed_at |-> Some(now)] @@ d1
                   ELSE IF db_task.status = Some("completed")
                   THEN [status |-> Some("pending"), completed_at |-> NoneVal] @@ d1
                   ELSE [completed_at |-> NoneVal] @@ d1
              ELSE d1
    IN d2

\* an update that writes the whole body, a field left out as null
apply_fields_all(row, data) ==
    [f \in DOMAIN row |-> IF f \in DOMAIN data THEN data[f]
                          ELSE IF f \in {"id", "user_id"} THEN row[f]
                          ELSE NoneVal]

\* lines 105-106: setattr for every field of the payload
apply_fields(row, data) ==
    [f \in DOMAIN row |-> IF f \in DOMAIN data THEN data[f] ELSE row[f]]

\* TaskService.toggle_task_completion, lines 130-137
toggled(db_task) ==
    IF Truthy(db_task.is_completed)
    THEN [db_task EXCEPT !.is_completed = Some(FALSE), !.status = Some("pending"),
                         !.completed_at = NoneVal]
    ELSE [db_task EXCEPT !.is_completed = Some(TRUE), !.status = Some("completed"),
                         !.completed_at = Some(now)]

TaskNotFound == HTTPException(404, "Task tidak ditemukan")

\* schemas.Task built from a row: status, is_completed, title and priority are
\* required there, so a row with a null in one of them fails validation (500)
TaskOut(row, resp) ==
    IF \/ IsNone(row.title) \/ IsNone(row.priority)
       \/ IsNone(row.status) \/ IsNone(row.is_completed)
    THEN ServerError
    ELSE resp
OK(status, detail) == Resp(status, detail, "none", NoneVal, NoneVal)

Answer(op, actor, rid, resp) ==
    last' = [op |-> op, actor |-> actor, rid |-> rid, resp |-> resp]

\* the answer of a handler that wrote a row; the names of the fields its body
\* set and the row as it stood before the write are kept next to the response
AnswerWrite(op, actor, rid, resp, fields, before) ==
    last' = [op |-> op, actor |-> actor, rid |-> rid, resp |-> resp,
             fields |-> fields, before |-> before]

\* POST /tasks/
create_task(u, task) ==
    /\ seq.task < MaxTasks
    /\ tasks' = tasks \cup {TaskService_create_task(task, u)}
    /\ seq' = [seq EXCEPT !.task = @ + 1]
    /\ Answer("create_task", u, seq.task + 1, OK(201, "Task berhasil dibuat"))
    /\ UNCHANGED <<now, settings, authVars, schedules>>

\* GET /tasks/{task_id}
get_task(u, task_id) ==
    /\ IF get_task_by_id(task_id, u) = {}
       THEN Answer("get_task", u, task_id, TaskNotFound)
       ELSE Answer("get_task", u, task_id,
                   TaskOut(CHOOSE t \in get_task_by_id(task_id, u) : TRUE, OK(200, "")))
    /\ UNCHANGED <<now, settings, authVars, resVars>>

\* PUT /tasks/{task_id}
update_task(u, task_id, payload) ==
    /\ IF get_task_by_id(task_id, u) = {}
       THEN /\ Answer("update_task", u, task_id, TaskNotFound)
            /\ tasks' = tasks
       ELSE LET db_task == CHOOSE t \in get_task_by_id(task_id, u) : TRUE
            IN /\ tasks' = (tasks \ {db_task})
                             \cup {apply_fields(db_task, update_data(db_task, payload))}
               /\ AnswerWrite("update_task", u, task_id,
                              TaskOut(apply_fields(db_task, update_data(db_task, payload)),
                                      OK(200, "Task berhasil diupdate")),
                              DOMAIN payload, db_task)
    /\ UNCHANGED <<now, settings, authVars, schedules, seq>>

\* DELETE /tasks/{task_id}
delete_task(u, task_id) ==
    /\ IF get_task_by_id(task_id, u) = {}
       THEN /\ Answer("delete_task", u, task_id, TaskNotFound)
            /\ tasks' = tasks
       ELSE /\ tasks' = tasks \ get_task_by_id(task_id, u)
            /\ Answer("delete_task", u, task_id, OK(200, "Task berhasil dihapus"))
    /\ UNCHANGED <<now, settings, authVars, schedules, seq>>

\* PATCH /tasks/{task_id}/toggle
toggle_task_completion(u, task_id) ==
    /\ IF get_task_by_id(task_id, u) = {}
       THEN /\ Answer("toggle_task_completion", u, task_id, TaskNotFound)
            /\ tasks' = tasks
       ELSE LET db_task == CHOOSE t \in get_task_by_id(task_id, u) : TRUE
            IN /\ tasks' = (tasks \ {db_task}) \cup {toggled(db_task)}
               /\ AnswerWrite("toggle_task_completion", u, task_id,
                              OK(200, IF Truthy(toggled(db_task).is_completed)
                                      THEN "Task berhasil diubah menjadi selesai"
                                      ELSE "Task berhasil diubah menjadi belum selesai"),
                              {}, db_task)
    /\ UNCHANGED <<now, settings, authVars, schedules, seq>>

----------------------------------------------------------------------------
(* Owned resources: schedules *)

StartTimes == {0}

\* ScheduleCreate bodies (status and schedule_type at their defaults)
ScheduleCreates ==
    {[title |-> Some("stand-up"), description |-> NoneVal, location |-> NoneVal,
      start_time |-> Some(st), end_time |-> NoneVal, reminder_time |-> NoneVal,
      status |-> Some("scheduled"), schedule_type |-> Some("meeting"),
      is_recurring |-> Some(FALSE), recurring_pattern |-> NoneVal] :
         st \in StartTimes}

\* ScheduleUpdate bodies, as dict(exclude_unset=True) gives them
SchedulePayloads ==
    {a @@ b @@ c :
        a \in {NoFields, [title |-> Some("retro")]},
        b \in {NoFields, [status |-> Some("cancelled")], [status |-> NoneVal]},
        c \in {NoFields, [location |-> Some("room 1")]}}

\* the query of get_schedule, update_schedule and delete_schedule
schedule_by_id(schedule_id, user_id) ==
    {x \in schedules : x.id = schedule_id /\ x.user_id = user_id}

ScheduleNotFound == HTTPException(404, "Schedule not found")

\* POST /schedules/
create_schedule(u, schedule) ==
    /\ seq.schedule < MaxSchedules
    /\ schedules' = schedules \cup
           {[id |-> seq.schedule + 1, user_id |-> u] @@ schedule}
    /\ seq' = [seq EXCEPT !.schedule = @ + 1]
    /\ Answer("create_schedule", u, seq.schedule + 1, OK(200, ""))
    /\ UNCHANGED <<now, settings, authVars, tasks>>

\* GET /schedules/{schedule_id}
get_schedule(u, schedule_id) ==
    /\ IF schedule_by_id(schedule_id, u) = {}
       THEN Answer("get_schedule", u, schedule_id, ScheduleNotFound)
       ELSE Answer("get_schedule", u, schedule_id, OK(200, ""))
    /\ UNCHANGED <<now, settings, authVars, resVars>>

\* PUT /schedules/{schedule_id}
update_schedule(u, schedule_id, payload) ==
    /\ IF schedule_by_id(schedule_id, u) = {}
       THEN /\ Answer("update_schedule", u, schedule_id, ScheduleNotFound)
            /\ schedules' = schedules
       ELSE LET schedule == CHOOSE x \in schedule_by_id(schedule_id, u) : TRUE
            IN /\ schedules' = (schedules \ {schedule})
                                 \cup {apply_fields(schedule, payload)}
               /\ AnswerWrite("update_schedule", u, schedule_id, OK(200, ""),
                              DOMAIN payload, schedule)
    /\ UNCHANGED <<now, settings, authVars, tasks, seq>>

\* DELETE /schedules/{schedule_id}
delete_schedule(u, schedule_id) ==
    /\ IF schedule_by_id(schedule_id, u) = {}
       THEN /\ Answer("delete_schedule", u, schedule_id, ScheduleNotFound)
            /\ schedules' = schedules
       ELSE /\ schedules' = schedules \ schedule_by_id(schedule_id, u)
            /\ Answer("delete_schedule", u, schedule_id,
                      OK(200, "Schedule deleted successfully"))
    /\ UNCHANGED <<now, settings, authVars, tasks, seq>>

----------------------------------------------------------------------------
(* The resource endpoints on their own, called by the users the gate binds *)

\* current_user.id of the request
ActingUsers == {users[i].id : i \in 1..Len(users)}

\* ids a request may name: those the tables hand out; an id names no row
\* before its row is created and after its row is deleted
TaskIds == 1..MaxTasks
ScheduleIds == 1..MaxSchedules

InitRes ==
    /\ now = 0
    /\ settings \in [ACCESS_TOKEN_EXPIRE_MINUTES : {1}]
    /\ users = << User(1, "alice@example.com", Some("Alice"),
                       Some(get_password_hash("secret123", "s1")), NoneVal, NoneVal, TRUE),
                  User(2, "bob@example.com", Some("Alice G"), NoneVal,
                       Some("g-1"), Some("pic"), TRUE) >>
    /\ pc = [p \in Procs |-> "idle"]
    /\ local = [p \in Procs |-> Idle]
    /\ last = [op |-> "none", actor |-> 0, rid |-> 0, resp |-> NoResp]
    /\ held = NoneVal
    /\ tasks = {}
    /\ schedules = {}
    /\ seq = [task |-> 0, schedule |-> 0]

NextRes ==
    \/ \E u \in ActingUsers, task \in TaskCreates : create_task(u, task)
    \/ \E u \in ActingUsers, id \in TaskIds : get_task(u, id)
    \/ \E u \in ActingUsers, id \in TaskIds, payload \in TaskPayloads :
           update_task(u, id, payload)
    \/ \E u \in ActingUsers, id \in TaskIds : delete_task(u, id)
    \/ \E u \in ActingUsers, id \in TaskIds : toggle_task_completion(u, id)
    \/ \E u \in ActingUsers, schedule \in ScheduleCreates : create_schedule(u, schedule)
    \/ \E u \in ActingUsers, id \in ScheduleIds : get_schedule(u, id)
    \/ \E u \in ActingUsers, id \in ScheduleIds, payload \in SchedulePayloads :
           update_schedule(u, id, payload)
    \/ \E u \in ActingUsers, id \in ScheduleIds : delete_schedule(u, id)

SpecRes == InitRes /\ [][NextRes]_vars

----------------------------------------------------------------------------
(* Listings of tasks *)

\* query-string values: a parameter left out is NoneVal
StatusFilters == {NoneVal, Some(""), Some("pending")}
PriorityFilters == {NoneVal, Some("high")}
SearchTerms == {NoneVal, Some("REPORT")}
Skips == {0, 1}
Limits == {1, 100}
DaysAhead == {1, 7}

\* `if status:` and its like: None and the empty string add no filter
Given(o) == ~IsNone(o) /\ o # Some("")

\* column ILIKE '%term%': case-insensitive containment, NULL for a NULL column
Lowered == [x \in {"REPORT", "write"} |-> IF x = "REPORT" THEN "report" ELSE x]
Containing ==
    [x \in {"report", "write"} |->
        IF x = "report" THEN {"write report"}
        ELSE {"write report", "write summary"}]
ilike(column, term) ==
    /\ ~IsNone(column)
    /\ column[1] \in Containing[Lowered[term]]

\* created_at descending: rows are created in the order of their ids
NewestFirst(a, b) == a.id > b.id

\* order_by(Task.created_at.desc()).offset(skip).limit(limit)
SliceNewest(rows, skip, limit) ==
    {x \in rows :
        LET rank == Cardinality({y \in rows : NewestFirst(y, x)})
        IN skip <= rank /\ rank < skip + limit}

\* get_tasks with the filter on user_id lost
TaskService_get_tasks_any(user_id, skip, limit, status, priority, search) ==
    LET query == {t \in tasks :
                     /\ Given(status) => t.status = status
                     /\ Given(priority) => t.priority = priority
                     /\ Given(search) => \/ ilike(t.title, search[1])
                                         \/ ilike(t.description, search[1])}
    IN [tasks |-> SliceNewest(query, skip, limit), total |-> Cardinality(query)]

\* TaskService.get_tasks
TaskService_get_tasks(user_id, skip, limit, status, priority, search) ==
    LET query == {t \in tasks :
                     /\ t.user_id = user_id
                     /\ Given(status) => t.status = status
                     /\ Given(priority) => t.priority = priority
                     /\ Given(search) => \/ ilike(t.title, search[1])
                                         \/ ilike(t.description, search[1])}
    IN [tasks |-> SliceNewest(query, skip, limit), total |-> Cardinality(query)]

\* TaskService.get_overdue_tasks: a NULL due_date or is_completed never matches
TaskService_get_overdue_tasks(user_id) ==
    {t \in tasks : /\ t.user_id = user_id
                   /\ ~IsNone(t.due_date) /\ t.due_date[1] < now
                   /\ t.is_completed = Some(FALSE)}

\* timedelta(days=days)
timedelta_days(d) == d * HoursPerDay * MinutesPerHour * TicksPerMinute

\* TaskService.get_upcoming_tasks
TaskService_get_upcoming_tasks(user_id, days) ==
    {t \in tasks : /\ t.user_id = user_id
                   /\ ~IsNone(t.due_date)
                   /\ t.due_date[1] >= now
                   /\ t.due_date[1] <= now + timedelta_days(days)
                   /\ t.is_completed = Some(FALSE)}

\* round(x, 2) of a ratio in percent, in hundredths of a percent
Percent(part, whole) == (2 * part * 10000 + whole) \div (2 * whole)

\* the answer of a listing: the rows returned and the numbers reported
AnswerList(op, actor, resp, rows, numbers) ==
    last' = [op |-> op, actor |-> actor, rid |-> 0, resp |-> resp,
             rows |-> rows, numbers |-> numbers]

\* the rows of a response as schemas.Task: a null in a required field is a 500
TasksOut(rows, resp) ==
    IF \E row \in rows : TaskOut(row, resp) = ServerError THEN ServerError ELSE resp

\* GET /tasks/
get_tasks(u, skip, limit, status, priority, search) ==
    LET got == TaskService_get_tasks(u, skip, limit, status, priority, search)
    IN /\ AnswerList("get_tasks", u, TasksOut(got.tasks, OK(200, "")), got.tasks,
                     [total |-> got.total, page |-> (skip \div limit) + 1,
                      size |-> Cardinality(got.tasks)])
       /\ UNCHANGED <<now, settings, authVars, resVars>>

\* GET /tasks/overdue/list
get_overdue_tasks(u) ==
    LET got == TaskService_get_overdue_tasks(u)
    IN /\ AnswerList("get_overdue_tasks", u, TasksOut(got, OK(200, "")), got,
                     [size |-> Cardinality(got)])
       /\ UNCHANGED <<now, settings, authVars, resVars>>

\* GET /tasks/upcoming/list
get_upcoming_tasks(u, days) ==
    LET got == TaskService_get_upcoming_tasks(u, days)
    IN /\ AnswerList("get_upcoming_tasks", u, TasksOut(got, OK(200, "")), got,
                     [size |-> Cardinality(got)])
       /\ UNCHANGED <<now, settings, authVars, resVars>>

\* GET /tasks/stats/summary: counts over the rows of the user, no row returned
get_task_stats(u) ==
    LET mine == {t \in tasks : t.user_id = u}
        total == Cardinality(mine)
        completed == Cardinality({t \in mine : t.is_completed = Some(TRUE)})
    IN /\ AnswerList("get_task_stats", u, OK(200, ""), {},
                     [total_tasks |-> total,
                      completed_tasks |-> completed,
                      pending_tasks |->
                          Cardinality({t \in mine : t.is_completed = Some(FALSE)}),
                      high_priority_tasks |->
                          Cardinality({t \in mine : t.priority = Some("high")}),
                      overdue_tasks |-> Cardinality(TaskService_get_overdue_tasks(u)),
                      completion_rate |->
                          IF total > 0 THEN Percent(completed, total) ELSE 0])
       /\ UNCHANGED <<now, settings, authVars, resVars>>

----------------------------------------------------------------------------
(* Listings of schedules *)

TicksPerDay == HoursPerDay * MinutesPerHour * TicksPerMinute

\* datetime.combine(date.today(), datetime.min.time()) and ... max.time()
DayStart(t) == (t \div TicksPerDay) * TicksPerDay
DayEnd(t) == DayStart(t) + TicksPerDay - 1

ScheduleStatusFilters == {NoneVal, Some("scheduled")}
ScheduleTypeFilters == {Some(""), Some("meeting")}
DateFilters == {NoneVal, Some(TicksPerDay)}

\* start_time ascending; rows with one start_time in the order of their ids
EarliestFirst(a, b) ==
    a.start_time[1] < b.start_time[1] \/ (a.start_time = b.start_time /\ a.id < b.id)

\* order_by(Schedule.start_time).offset(offset).limit(limit)
SliceEarliest(rows, offset, limit) ==
    {x \in rows :
        LET rank == Cardinality({y \in rows : EarliestFirst(y, x)})
        IN offset <= rank /\ rank < offset + limit}

\* the query of get_schedules, lines 46-59
schedules_query(user_id, status, schedule_type, start_date, end_date, limit, offset) ==
    LET query == {x \in schedules :
                     /\ x.user_id = user_id
                     /\ Given(status) => x.status = status
                     /\ Given(schedule_type) => x.schedule_type = schedule_type
                     /\ ~IsNone(start_date) => x.start_time[1] >= start_date[1]
                     /\ ~IsNone(end_date) => x.start_time[1] <= end_date[1]}
    IN SliceEarliest(query, offset, limit)

\* GET /schedules/
get_schedules(u, status, schedule_type, start_date, end_date, limit, offset) ==
    LET got == schedules_query(u, status, schedule_type, start_date, end_date,
                               limit, offset)
    IN /\ AnswerList("get_schedules", u, OK(200, ""), got, [size |-> Cardinality(got)])
       /\ UNCHANGED <<now, settings, authVars, resVars>>

\* GET /schedules/today/
get_today_schedules(u) ==
    LET got == {x \in schedules : /\ x.user_id = u
                                  /\ x.start_time[1] >= DayStart(now)
                                  /\ x.start_time[1] <= DayEnd(now)}
    IN /\ AnswerList("get_today_schedules", u, OK(200, ""), got,
                     [size |-> Cardinality(got)])
       /\ UNCHANGED <<now, settings, authVars, resVars>>

\* GET /schedules/upcoming/
get_upcoming_schedules(u, days) ==
    LET got == {x \in schedules :
                   /\ x.user_id = u
                   /\ x.start_time[1] >= DayStart(now)
                   /\ x.start_time[1] <= DayEnd(now + timedelta_days(days))
                   /\ x.status \in {Some("scheduled"), Some("ongoing")}}
    IN /\ AnswerList("get_upcoming_schedules", u, OK(200, ""), got,
                     [size |-> Cardinality(got)])
       /\ UNCHANGED <<now, settings, authVars, resVars>>

----------------------------------------------------------------------------
(* The listings on their own, over tables that hold rows of two users      *)

\* a tasks row as create_task, update_task and toggle leave it
TaskRow(id, user_id, title, priority, status, due_date) ==
    [id |-> id, title |-> Some(title), description |-> NoneVal,
     priority |-> Some(priority), status |-> Some(status), due_date |-> due_date,
     reminder_time |-> NoneVal, is_completed |-> Some(status = "completed"),
     user_id |-> user_id,
     completed_at |-> IF status = "completed" THEN Some(0) ELSE NoneVal]

\* a schedules row as create_schedule and update_schedule leave it
ScheduleRow(id, user_id, status, start_time) ==
    [id |-> id, user_id |-> user_id, title |-> Some("stand-up"),
     description |-> NoneVal, location |-> NoneVal, start_time |-> Some(start_time),
     end_time |-> NoneVal, reminder_time |-> NoneVal, status |-> Some(status),
     schedule_type |-> Some("meeting"), is_recurring |-> Some(FALSE),
     recurring_pattern |-> NoneVal]

\* rows the tables may hold when the listings are called
TaskPool ==
    {TaskRow(1, 1, "write report", "medium", "pending", Some(1)),
     TaskRow(2, 2, "write report", "high", "pending", Some(1)),
     TaskRow(3, 1, "write summary", "high", "completed", NoneVal)}

SchedulePool ==
    {ScheduleRow(1, 1, "scheduled", 0),
     ScheduleRow(2, 2, "scheduled", 1),
     ScheduleRow(3, 1, "cancelled", TicksPerDay + 1)}

InitList ==
    /\ now = 0
    /\ settings \in [ACCESS_TOKEN_EXPIRE_MINUTES : {1}]
    /\ users = << User(1, "alice@example.com", Some("Alice"),
                       Some(get_password_hash("secret123", "s1")), NoneVal, NoneVal, TRUE),
                  User(2, "bob@example.com", Some("Alice G"), NoneVal,
                       Some("g-1"), Some("pic"), TRUE) >>
    /\ pc = [p \in Procs |-> "idle"]
    /\ local = [p \in Procs |-> Idle]
    /\ last = [op |-> "none", actor |-> 0, rid |-> 0, resp |-> NoResp]
    /\ held = NoneVal
    /\ tasks \in SUBSET TaskPool
    /\ schedules \in SUBSET SchedulePool
    /\ seq = [task |-> Cardinality(TaskPool), schedule |-> Cardinality(SchedulePool)]

NextList ==
    \/ \E u \in ActingUsers, skip \in Skips, limit \in Limits, status \in StatusFilters,
          priority \in PriorityFilters, search \in SearchTerms :
           get_tasks(u, skip, limit, status, priority, search)
    \/ \E u \in ActingUsers : get_overdue_tasks(u)
    \/ \E u \in ActingUsers, days \in DaysAhead : get_upcoming_tasks(u, days)
    \/ \E u \in ActingUsers : get_task_stats(u)
    \/ \E u \in ActingUsers, status \in ScheduleStatusFilters,
          schedule_type \in ScheduleTypeFilters, start_date \in DateFilters,
          end_date \in DateFilters, limit \in Limits, offset \in Skips :
           get_schedules(u, status, schedule_type, start_date, end_date, limit, offset)
    \/ \E u \in ActingUsers : get_today_schedules(u)
    \/ \E u \in ActingUsers, days \in DaysAhead : get_upcoming_schedules(u, days)
    \/ TickSecond

SpecList == InitList /\ [][NextList]_vars

----------------------------------------------------------------------------
(* The task endpoints on their own, with bodies that carry a description    *)

\* TaskCreate bodies with and without a description
TaskCreatesAll ==
    {[title |-> Some(t), description |-> d, priority |-> Some("medium"),
      due_date |-> NoneVal, reminder_time |-> NoneVal] :
         t \in Titles, d \in {NoneVal, Some("draft")}}

\* TaskUpdate bodies: those of TaskPayloads and one that sets the description
TaskPayloadsAll == TaskPayloads \cup {[description |-> Some("final")]}

NextTask ==
    \/ \E u \in ActingUsers, task \in TaskCreatesAll : create_task(u, task)
    \/ \E u \in ActingUsers, id \in TaskIds : get_task(u, id)
    \/ \E u \in ActingUsers, id \in TaskIds, payload \in TaskPayloadsAll :
           update_task(u, id, payload)
    \/ \E u \in ActingUsers, id \in TaskIds : delete_task(u, id)
    \/ \E u \in ActingUsers, id \in TaskIds : toggle_task_completion(u, id)

SpecTask == InitRes /\ [][NextTask]_vars

\* TaskUpdate bodies in which every field that is present has a value
TaskPayloadsSet == {payload \in TaskPayloadsAll :
                       \A f \in DOMAIN payload : ~IsNone(payload[f])}

\* create_task, update_task with such bodies, and toggle_task_completion
NextTaskSet ==
    \/ \E u \in ActingUsers, task \in TaskCreatesAll : create_task(u, task)
    \/ \E u \in ActingUsers, id \in TaskIds, payload \in TaskPayloadsSet :
           update_task(u, id, payload)
    \/ \E u \in ActingUsers, id \in TaskIds : toggle_task_completion(u, id)

SpecTaskSet == InitRes /\ [][NextTaskSet]_vars

----------------------------------------------------------------------------
(* Claims about the token service and the authorization gate (SpecToken)  *)

GateFailed(l) == l.op = "me" /\ l.resp.status # 200

\* C2: every failure of the gate (no header, wrong scheme, bad signature,
\* expired token, no sub, unknown user) is a 401 with WWW-Authenticate: Bearer,
\* and two failures with different causes get the same response
ClaimC2 ==
    [][GateFailed(last') =>
          /\ last'.resp.status = 401
          /\ last'.resp.www = "Bearer"
          /\ (GateFailed(last) => last'.resp = last.resp)]_vars

\* C3: a token made by create_access_token for e with ttl d at t0 verifies to e
\* at every now < t0 + d and fails at every now > t0 + d; a malformed token, a
\* foreign signature and a missing sub fail; no other identity is ever returned
ClaimC3 ==
    last.op = "verify_token" =>
        /\ \A e \in Emails, m \in ExpireMinutesChoices, t0 \in 0..last.at :
               last.token = create_access_token([sub |-> Some(e)],
                                                Some(timedelta_minutes(m)), t0)
               => /\ (last.at < t0 + timedelta_minutes(m) => last.result = Some(e))
                  /\ (last.at > t0 + timedelta_minutes(m) => IsNone(last.result))
        /\ (\/ ~last.token.wf
            \/ last.token.sig # Sign(last.token.claims, SECRET_KEY)
            \/ IsNone(last.token.claims.sub)) => IsNone(last.result)
        /\ ~IsNone(last.result) => last.result = last.token.claims.sub

StoredWithEmail(email) == {i \in 1..Len(users) : users[i].email = email}

\* C4: the gate binds a user only if the token verifies at that request and a
\* stored user has exactly the token's sub as email; a request whose token's sub
\* has no stored user is rejected as Unauthenticated, whatever earlier requests got
TheoremC4 ==
    [][\A cred \in Credentials, err \in BearerErrorChoices :
          get_current_user_info(cred, err) =>
              /\ last'.resp.status = 200 =>
                    /\ cred.kind = "bearer"
                    /\ ~IsNone(verify_token(cred.token, now))
                    /\ \E i \in StoredWithEmail(verify_token(cred.token, now)[1]) :
                           last'.resp.user = UserOut(users[i])
              /\ (/\ cred.kind = "bearer"
                  /\ \/ IsNone(cred.token.claims.sub)
                     \/ StoredWithEmail(cred.token.claims.sub[1]) = {})
                 => /\ last'.resp.status = 401
                    /\ last'.resp.www = "Bearer"
                    /\ IsNone(last'.resp.user)]_vars

\* a valid, unexpired token was presented after its user's row was gone, and refused
WitnessC4 ==
    /\ last.op = "me"
    /\ last.cred.kind = "bearer"
    /\ ~IsNone(verify_token(last.cred.token, last.at))
    /\ StoredWithEmail(last.cred.token.claims.sub[1]) = {}
    /\ last.resp = HTTPException401("User tidak ditemukan")

----------------------------------------------------------------------------
Next ==
    \/ \E p \in Procs, email \in Emails, password \in Passwords, full_name \in FullNames :
           register_check(p, email, password, full_name)
    \/ \E p \in Procs, salt \in Salts : register_commit(p, salt)
    \/ \E p \in Procs, email \in Emails, password \in Passwords : login(p, email, password)
    \/ \E p \in Procs, out \in CallbackOutcomes : google_callback_lookup(p, out)
    \/ \E p \in Procs : google_callback_insert(p)
    \/ \E p \in Procs : google_callback_link(p)
    \/ \E p \in Procs : logout(p)

Spec == Init /\ [][Next]_vars

----------------------------------------------------------------------------
(* Claims about the owner-scoped endpoints (SpecRes)                       *)

TaskByIdOps == {"get_task", "update_task", "delete_task", "toggle_task_completion"}
ScheduleByIdOps == {"get_schedule", "update_schedule", "delete_schedule"}

\* C1: get, update, delete (and toggle) by a user who does not own the task or
\* schedule answer the 404 of an id that does not exist and leave the row, every
\* field of it, as it was
TheoremC1 ==
    [][LET u == last'.actor
           id == last'.rid
       IN /\ (last'.op \in TaskByIdOps /\ \E t \in tasks : t.id = id /\ t.user_id # u)
             => /\ last'.resp = HTTPException(404, "Task tidak ditemukan")
                /\ tasks' = tasks
          /\ (last'.op \in TaskByIdOps /\ \A t \in tasks : t.id # id)
             => /\ last'.resp = HTTPException(404, "Task tidak ditemukan")
                /\ tasks' = tasks
          /\ (last'.op \in ScheduleByIdOps
                /\ \E x \in schedules : x.id = id /\ x.user_id # u)
             => /\ last'.resp = HTTPException(404, "Schedule not found")
                /\ schedules' = schedules
          /\ (last'.op \in ScheduleByIdOps /\ \A x \in schedules : x.id # id)
             => /\ last'.resp = HTTPException(404, "Schedule not found")
                /\ schedules' = schedules]_vars

\* a user asked to delete another user's task and got the 404; the task is there
WitnessC1 ==
    /\ last.op = "delete_task"
    /\ last.resp.status = 404
    /\ \E t \in tasks : t.id = last.rid /\ t.user_id # last.actor

----------------------------------------------------------------------------
(* Claims about registration, login and Google sign-in (Spec)              *)

\* the password is the one the stored hash was made from
PasswordMatches(password, hashed_password) ==
    /\ hashed_password # NoneVal
    /\ hashed_password[1].pw = password

IsBearerFor(resp, email) ==
    /\ resp.status = 200
    /\ resp.token # NoneVal
    /\ resp.token[1] = jwt_encode(resp.token[1].claims, SECRET_KEY)
    /\ resp.token[1].claims.sub = Some(email)

\* C5: login answers a bearer token whose sub is the email exactly when a stored
\* user has the email and the password matches its hash; otherwise (unknown
\* email, wrong password, account without a hash) it answers one and the same
\* 401 and changes nothing stored
TheoremC5 ==
    [][\A p \in Procs, email \in Emails, password \in Passwords :
          login(p, email, password) =>
              IF \E i \in 1..Len(users) :
                     /\ users[i].email = email
                     /\ PasswordMatches(password, users[i].hashed_password)
              THEN IsBearerFor(last'.resp, email)
              ELSE /\ last'.resp = HTTPException401("Incorrect email or password")
                   /\ UNCHANGED <<users, tasks, schedules, seq>>]_vars

\* a login for an account made by Google sign-in (no hash) was refused
WitnessC5 ==
    /\ last.op = "login"
    /\ last.note = "no_hash"
    /\ last.resp.status = 401

\* C6: register for an email a stored user has answers 400 "Email already
\* registered", ends the request, adds no row and changes no row
TheoremC6 ==
    [][\A p \in Procs, email \in Emails, password \in Passwords, full_name \in FullNames :
          (register_check(p, email, password, full_name) /\ UsersByEmail(email) # {})
          => /\ last'.resp = HTTPException(400, "Email already registered")
             /\ pc'[p] = "idle"
             /\ users' = users]_vars

\* the refused email belongs to a user an external callback created
WitnessC6 ==
    /\ last.op = "register"
    /\ last.resp = HTTPException(400, "Email already registered")
    /\ \E i \in 1..Len(users) :
           /\ Some(users[i].email) = last.email
           /\ IsNone(users[i].hashed_password)
           /\ ~IsNone(users[i].google_id)

\* C7: a callback for an email whose user another callback has created
\* meanwhile still ends with a token for that one user: no error response,
\* and one row for the email
ClaimC7 ==
    (/\ last.op = "google_callback"
     /\ ~IsNone(last.email)
     /\ \E i \in 1..Len(users) :
            Some(users[i].email) = last.email /\ IsNone(users[i].hashed_password))
    => /\ IsBearerFor(last.resp, last.email[1])
       /\ Cardinality(UsersByEmail(last.email[1])) = 1

\* C8: no two rows of the users table have the same email
TheoremC8 ==
    \A i, j \in 1..Len(users) : users[i].email = users[j].email => i = j

\* two requests raced for one email: the later insert met the row of the earlier
WitnessC8 ==
    /\ last.note = "conflict"
    /\ Cardinality(UsersByEmail(last.email[1])) = 1

\* C9: the callback that inserts adds exactly one row (google_id the subject, no
\* password hash, active) and answers a token for it; a callback for a stored
\* user with the same subject adds and changes nothing and answers a valid token
TheoremC9 ==
    [][/\ \A p \in Procs :
             (google_callback_insert(p) /\ last'.resp.status = 200)
             => LET info == local[p].claims
                IN /\ UsersByEmail(info.email[1]) = {}
                   /\ Len(users') = Len(users) + 1
                   /\ SubSeq(users', 1, Len(users)) = users
                   /\ users'[Len(users')].email = info.email[1]
                   /\ users'[Len(users')].google_id = Some(info.sub)
                   /\ users'[Len(users')].hashed_password = NoneVal
                   /\ users'[Len(users')].is_active = TRUE
                   /\ IsBearerFor(last'.resp, info.email[1])
       /\ \A p \in Procs, out \in CallbackOutcomes :
             (/\ google_callback_lookup(p, out)
              /\ out.kind = "userinfo"
              /\ ~IsNone(out.email)
              /\ \E i \in 1..Len(users) :
                     users[i].email = out.email[1] /\ users[i].google_id = Some(out.sub))
             => /\ users' = users
                /\ pc'[p] = "idle"
                /\ IsBearerFor(last'.resp, out.email[1])
                /\ verify_token(last'.resp.token[1], now) = out.email]_vars

\* a second callback for a user the first callback created
WitnessC9 ==
    /\ last.op = "google_callback"
    /\ last.note = "existing"
    /\ last.resp.status = 200
    /\ \E i \in 1..Len(users) :
           /\ Some(users[i].email) = last.email
           /\ IsNone(users[i].hashed_password)

\* C10: linking sets google_id and avatar_url on the row found and nothing else:
\* no row is added, password hash, email and id stay; no step ever changes a
\* password hash, and a login with the password of a linked account succeeds
TheoremC10 ==
    [][/\ \A p \in Procs :
             google_callback_link(p)
             => LET uid == local[p].uid
                    info == local[p].claims
                IN users' = [users EXCEPT ![uid].google_id = Some(info.sub),
                                          ![uid].avatar_url = info.picture]
       /\ \A i \in 1..Len(users) :
             /\ i <= Len(users')
             /\ users'[i].hashed_password = users[i].hashed_password
             /\ users'[i].email = users[i].email
             /\ users'[i].id = users[i].id
       /\ \A p \in Procs, email \in Emails, password \in Passwords :
             (/\ login(p, email, password)
              /\ \E i \in 1..Len(users) :
                     /\ users[i].email = email
                     /\ ~IsNone(users[i].google_id)
                     /\ PasswordMatches(password, users[i].hashed_password))
             => IsBearerFor(last'.resp, email)]_vars

\* a local account was linked and a login with its password succeeded afterwards
WitnessC10 ==
    /\ last.op = "login"
    /\ last.resp.status = 200
    /\ \E i \in 1..Len(users) :
           /\ Some(users[i].email) = last.email
           /\ ~IsNone(users[i].google_id)
           /\ ~IsNone(users[i].hashed_password)

\* C11: a callback that fails (authorization code missing or invalid, provider
\* error, no userinfo, no email claim) answers 400, carries no token, ends the
\* request and leaves the users table, every row and every field, as it was
TheoremC11 ==
    [][\A p \in Procs, out \in CallbackOutcomes :
          (/\ google_callback_lookup(p, out)
           /\ \/ out.kind \in {"error", "no_userinfo"}
              \/ IsNone(out.email))
          => /\ last'.op = "google_callback"
             /\ last'.resp.status = 400
             /\ IsNone(last'.resp.token)
             /\ IsNone(last'.resp.user)
             /\ pc'[p] = "idle"
             /\ users' = users]_vars

\* a callback without the email claim failed while the table held a user
WitnessC11 ==
    /\ last.op = "google_callback"
    /\ last.note = "no_email"
    /\ last.resp.status = 400
    /\ Len(users) > 0

\* C15: every stored user has a password hash or a google_id or both, in every
\* state register, login, google_callback and logout lead to
TheoremC15 ==
    \A i \in 1..Len(users) :
        ~IsNone(users[i].hashed_password) \/ ~Falsy(users[i].google_id)

\* the table holds a user with a google_id only and a user with both, and a
\* logout has just been answered
WitnessC15 ==
    /\ last.op = "logout"
    /\ \E j, k \in 1..Len(users) :
           /\ IsNone(users[j].hashed_password) /\ ~IsNone(users[j].google_id)
           /\ ~IsNone(users[k].hashed_password) /\ ~IsNone(users[k].google_id)

\* C16: every token login or google_callback answers expires at the time of
\* issue plus the configured ACCESS_TOKEN_EXPIRE_MINUTES, whatever that value
\* is, zero included
ClaimC16 ==
    (last.op \in {"login", "google_callback"} /\ ~IsNone(last.resp.token))
    => last.resp.token[1].claims.exp
           = NumericDate(now + timedelta_minutes(settings.ACCESS_TOKEN_EXPIRE_MINUTES))

\* C17: a user whose google_id is set keeps every field, google_id, avatar_url
\* and password hash included, through every step of every callback
ClaimC17 ==
    [][\A i \in 1..Len(users) :
          ~Falsy(users[i].google_id)
          => /\ i <= Len(users')
             /\ users'[i] = users[i]]_vars

----------------------------------------------------------------------------
(* Claims about task completion (SpecTask)                                 *)

StatusCompleted == [status |-> Some("completed")]
StatusPending == [status |-> Some("pending")]

\* the row with the id in the table before and after the step
RowOf(table, id) == CHOOSE t \in table : t.id = id

\* a row as an update to status completed leaves it
IsCompletedRow(t) ==
    /\ t.is_completed = Some(TRUE)
    /\ t.status = Some("completed")
    /\ ~IsNone(t.completed_at)

\* a row as an update back to status pending leaves it
IsPendingRow(t) ==
    /\ t.is_completed = Some(FALSE)
    /\ t.status = Some("pending")
    /\ IsNone(t.completed_at)

\* C12: an update with the body {status: completed} leaves the task completed
\* (is_completed true, completed_at set); the update with the body
\* {status: pending} that follows it leaves the task pending (is_completed
\* false, completed_at null); title and description are after both updates what
\* they were before the first
TheoremC12 ==
    [][\A u \in ActingUsers, id \in TaskIds :
          /\ (update_task(u, id, StatusCompleted) /\ get_task_by_id(id, u) # {})
             => /\ IsCompletedRow(RowOf(tasks', id))
                /\ RowOf(tasks', id).title = RowOf(tasks, id).title
                /\ RowOf(tasks', id).description = RowOf(tasks, id).description
                /\ last'.op = "update_task" /\ last'.resp.status = 200
                /\ last'.actor = u /\ last'.rid = id
                /\ last'.before = RowOf(tasks, id)
          /\ (/\ last.op = "update_task"
              /\ last.resp.status = 200
              /\ last.actor = u
              /\ last.rid = id
              /\ get_task_by_id(id, u) # {}
              /\ IsCompletedRow(RowOf(tasks, id))
              /\ RowOf(tasks, id).title = last.before.title
              /\ RowOf(tasks, id).description = last.before.description
              /\ update_task(u, id, StatusPending))
             => /\ IsPendingRow(RowOf(tasks', id))
                /\ RowOf(tasks', id).title = last.before.title
                /\ RowOf(tasks', id).description = last.before.description]_vars

\* a task with a description, completed by an update, was set back to pending
\* by the next one
WitnessC12 ==
    /\ last.op = "update_task"
    /\ last.resp.status = 200
    /\ IsCompletedRow(last.before)
    /\ last.before.description = Some("draft")
    /\ last.before.title = Some("write report")
    /\ \E t \in tasks :
           /\ t.id = last.rid
           /\ IsPendingRow(t)
           /\ t.description = Some("draft")

\* is_completed, status and the nullness of completed_at of a row
Completion(t) ==
    [is_completed |-> t.is_completed, status |-> t.status,
     has_completed_at |-> ~IsNone(t.completed_at)]

\* C13: a toggle of an owned task flips is_completed and sets status and
\* completed_at to match (completed with a timestamp, or pending without), and a
\* second toggle right after the first brings is_completed, status and the
\* nullness of completed_at back to what they were before the first
ClaimC13 ==
    [][\A u \in ActingUsers, id \in TaskIds :
          (toggle_task_completion(u, id) /\ get_task_by_id(id, u) # {})
          => /\ Truthy(RowOf(tasks', id).is_completed)
                    = ~Truthy(RowOf(tasks, id).is_completed)
             /\ IF Truthy(RowOf(tasks', id).is_completed)
                THEN IsCompletedRow(RowOf(tasks', id))
                ELSE IsPendingRow(RowOf(tasks', id))
             /\ (/\ last.op = "toggle_task_completion"
                 /\ last.resp.status = 200
                 /\ last.actor = u
                 /\ last.rid = id)
                => Completion(RowOf(tasks', id)) = Completion(last.before)]_vars

----------------------------------------------------------------------------
(* Claims about partial updates (SpecRes)                                  *)

\* the completion fields update_task derives from status and is_completed
DerivedFields == {"status", "is_completed", "completed_at"}

----------------------------------------------------------------------------
(* Claims about the listings (SpecList)                                    *)

TaskListOps == {"get_tasks", "get_overdue_tasks", "get_upcoming_tasks"}
ScheduleListOps == {"get_schedules", "get_today_schedules", "get_upcoming_schedules"}

\* the rows of a table that belong to the user
OwnedBy(table, u) == {r \in table : r.user_id = u}

\* C18: every listing of tasks or schedules (filters and pagination, overdue,
\* upcoming, today) returns rows of the acting user only, and the numbers the
\* list and the statistics report count rows of the acting user only, whatever
\* rows other users own
TheoremC18 ==
    /\ last.op \in TaskListOps
       => /\ last.rows \subseteq OwnedBy(tasks, last.actor)
          /\ last.numbers.size = Cardinality(last.rows)
    /\ last.op = "get_tasks"
       => /\ last.numbers.total <= Cardinality(OwnedBy(tasks, last.actor))
          /\ last.numbers.total >= last.numbers.size
    /\ last.op \in ScheduleListOps
       => /\ last.rows \subseteq OwnedBy(schedules, last.actor)
          /\ last.numbers.size = Cardinality(last.rows)
    /\ last.op = "get_task_stats"
       => LET mine == OwnedBy(tasks, last.actor)
          IN /\ last.numbers.total_tasks = Cardinality(mine)
             /\ last.numbers.completed_tasks
                    = Cardinality({t \in mine : t.is_completed = Some(TRUE)})
             /\ last.numbers.pending_tasks
                    = Cardinality({t \in mine : t.is_completed = Some(FALSE)})
             /\ last.numbers.high_priority_tasks
                    = Cardinality({t \in mine : t.priority = Some("high")})
             /\ last.numbers.overdue_tasks
                    <= Cardinality({t \in mine : ~IsNone(t.due_date)})

\* a user listed pending tasks and got one, while a pending task of another
\* user that matches the same filters was left out
WitnessC18 ==
    /\ last.op = "get_tasks"
    /\ \E mine \in last.rows, other \in tasks :
           /\ other.user_id # last.actor
           /\ other.status = mine.status
           /\ other.title = mine.title
           /\ other \notin last.rows

----------------------------------------------------------------------------
(* Claims about a client's session (SpecSession)                           *)

\* C19: logout writes nothing on the server (users, tasks, schedules, settings
\* stay) and revokes nothing: the gate answers the token the client holds after
\* the logout as it did before, and a token still unexpired is accepted by
\* /auth/me after a logout
TheoremC19 ==
    [][/\ logout(Client)
          => /\ UNCHANGED <<users, tasks, schedules, seq, settings, held>>
             /\ last'.resp.status = 200
             /\ ~IsNone(held)
                => get_current_user(held[1], now)' = get_current_user(held[1], now)
       /\ \A cred \in Credentials, err \in BearerErrorChoices :
             (/\ last.op = "logout"
              /\ cred.kind = "bearer"
              /\ jwt_decode_ok(cred.token, SECRET_KEY, now)
              /\ ~IsNone(cred.token.claims.sub)
              /\ UsersByEmail(cred.token.claims.sub[1]) # {}
              /\ get_current_user_info(cred, err))
             => /\ last'.resp.status = 200
                /\ last'.resp.user = UserOut(first_by_email(cred.token.claims.sub[1])[1])]_vars

\* the client has logged out, time has passed, and the token it holds is one
\* the gate accepts
WitnessC19 ==
    /\ last.op = "logout"
    /\ now > 0
    /\ ~IsNone(held)
    /\ get_current_user(held[1], now).ok

\* C20: after register(e, p) for a new email, login(e, p) answers a token;
\* /auth/me with that token, before it expires, answers the user whose email is
\* e; /auth/me without an Authorization header answers 401
ClaimC20 ==
    [][/\ \A email \in Emails, password \in Passwords :
             (/\ last.op = "register"
              /\ last.note = "created"
              /\ last.email = Some(email)
              /\ verify_password(password, first_by_email(email)[1].hashed_password)
              /\ login(Client, email, password))
             => IsBearerFor(last'.resp, email)
       /\ \A cred \in Credentials, err \in BearerErrorChoices :
             get_current_user_info(cred, err)
             => /\ (/\ cred.kind = "bearer"
                    /\ cred.token = jwt_encode(cred.token.claims, SECRET_KEY)
                    /\ ~IsNone(cred.token.claims.sub)
                    /\ ~(cred.token.claims.exp < NumericDate(now)))
                   => /\ last'.resp.status = 200
                      /\ ~IsNone(last'.resp.user)
                      /\ last'.resp.user[1].email = cred.token.claims.sub[1]
                /\ cred.kind = "missing" => last'.resp.status = 401]_vars

----------------------------------------------------------------------------
(* Claims about the status an update stores (SpecTask, SpecTaskSet)        *)

\* TaskUpdate bodies that set status to a value and do not set is_completed
StatusOnlyPayloads ==
    {payload \in TaskPayloadsAll :
        /\ "status" \in DOMAIN payload
        /\ ~IsNone(payload.status)
        /\ "is_completed" \notin DOMAIN payload}

\* C21: an update of an owned task whose body sets status to one of the four
\* values and does not set is_completed leaves the task with that status,
\* whatever its status was before (completed included)
ClaimC21 ==
    [][\A u \in ActingUsers, id \in TaskIds, payload \in StatusOnlyPayloads :
          (update_task(u, id, payload) /\ get_task_by_id(id, u) # {})
          => RowOf(tasks', id).status = payload.status]_vars

\* is_completed, status = completed and completed_at non-null agree on the row
CompletionAgrees(t) ==
    /\ (t.is_completed = Some(TRUE)) = (t.status = Some("completed"))
    /\ (t.status = Some("completed")) = ~IsNone(t.completed_at)

\* C22: after any sequence of create_task, update_task with bodies whose
\* present fields are non-null (status and is_completed in any combination)
\* and toggle_task_completion, every task has is_completed true exactly when
\* its status is completed and exactly when completed_at is non-null
TheoremC22 ==
    \A t \in tasks : CompletionAgrees(t)

\* an update whose body set both status and is_completed was applied to a
\* completed task and left it pending, not completed and without a timestamp
WitnessC22 ==
    /\ last.op = "update_task"
    /\ last.resp.status = 200
    /\ {"status", "is_completed"} \subseteq last.fields
    /\ IsCompletedRow(last.before)
    /\ \E t \in tasks :
           /\ t.id = last.rid
           /\ IsPendingRow(t)

\* C23: no update stores null in status or is_completed: after update_task,
\* with a body that sets status or is_completed to null too, the status of the
\* task is one of the four TaskStatus values and is_completed is a boolean
ClaimC23 ==
    (last.op = "update_task" /\ last.resp.status # 404)
    => \A t \in tasks :
          t.id = last.rid
          => /\ t.status \in {Some(st) : st \in TaskStatus}
             /\ t.is_completed \in {Some(v) : v \in BOOLEAN}

----------------------------------------------------------------------------
(* Claims about the Google subject of a linked account (Spec)              *)

\* C24: the callback answers a token for a user whose google_id is set only
\* when the sub of the callback's claims is that google_id: a callback with the
\* email of a linked user and another sub gets no token for the account
ClaimC24 ==
    [][\A p \in Procs, out \in CallbackOutcomes :
          (/\ out.kind = "userinfo"
           /\ ~IsNone(out.email)
           /\ UsersByEmail(out.email[1]) # {}
           /\ ~Falsy(first_by_email(out.email[1])[1].google_id)
           /\ google_callback_lookup(p, out)
           /\ ~IsNone(last'.resp.token))
          => first_by_email(out.email[1])[1].google_id = Some(out.sub)]_vars

----------------------------------------------------------------------------
(* Claims about the owner of a row (SpecRes)                               *)

\* every row of the table after the step that was in it before the step has
\* the user_id it had
OwnersKept(before, after) ==
    \A r \in before, s \in after : r.id = s.id => s.user_id = r.user_id

\* C25: a task or a schedule is created with the user_id of the acting user,
\* and no create, update, toggle or delete of any user changes the user_id of
\* a task or a schedule that exists
TheoremC25 ==
    [][/\ OwnersKept(tasks, tasks')
       /\ OwnersKept(schedules, schedules')
       /\ \A t \in tasks' \ tasks :
             t.id \notin {r.id : r \in tasks}
             => /\ last'.op = "create_task"
                /\ t.user_id = last'.actor
       /\ \A x \in schedules' \ schedules :
             x.id \notin {r.id : r \in schedules}
             => /\ last'.op = "create_schedule"
                /\ x.user_id = last'.actor]_vars

\* the second user owns a task it has created and updated, the first user
\* owns a schedule, and the first user has just tried to update the task
WitnessC25 ==
    /\ last.op = "update_task"
    /\ last.actor = 1
    /\ last.resp.status = 404
    /\ \E t \in tasks :
           /\ t.id = last.rid
           /\ t.user_id = 2
           /\ t.title = Some("write summary")
    /\ \E x \in schedules : x.user_id = 1 /\ x.title = Some("retro")

====
